---- MODULE Spec2Model ----
(***************************************************************************)
(* IBC validity predicate for the port module                              *)
(* (shared/src/ledger/ibc/port.rs).                                        *)
(*                                                                         *)
(* The predicate judges one transaction, given as a pre-transaction and a  *)
(* post-transaction storage snapshot.  The snapshots are written by the    *)
(* host (HostWrite* actions); the operations of port.rs only read them.    *)
(***************************************************************************)
EXTENDS Integers, Sequences, FiniteSets, TLC

VARIABLES pre, post, counter_pre, counter_post, call, result, trace

vars == <<pre, post, counter_pre, counter_post, call, result, trace>>

(* ------------------------------ bounds --------------------------------- *)

\* largest capability index that occurs in keys and stored values
MaxIndex == 1
\* largest value of the capability counter
MaxCounter == 2
\* number of storage entries (and counter values) the host sets
MaxEntries == 3

(* --------------------------- identifiers ------------------------------- *)

\* well-formed port identifiers
Ports == {"transfer", "bank"}
\* a string that PortId::from_str refuses (contains a separator)
BadPortStr == "p/"
PortStrs == Ports \cup {BadPortStr}

Indices == 0 .. MaxIndex

\* decimal rendering of an index, as format!("{}", cap.index()) gives it
DigitStr == <<"0", "1", "2", "3", "4", "5", "6", "7", "8", "9">>
IndexToString(i) == DigitStr[i + 1]

\* the same numbers written with a leading zero
PaddedStr == <<"00", "01", "02", "03", "04", "05", "06", "07", "08", "09">>

\* str::parse::<u64>() restricted to the segments of the model; -1 is Err.
\* Leading zeros are accepted, so the parse is not injective.
ParseU64(s) ==
    IF \E i \in 0 .. 9 : DigitStr[i + 1] = s
    THEN CHOOSE i \in 0 .. 9 : DigitStr[i + 1] = s
    ELSE IF \E i \in 0 .. 9 : PaddedStr[i + 1] = s
    THEN CHOOSE i \in 0 .. 9 : PaddedStr[i + 1] = s
    ELSE -1

\* PortId::from_str: TRUE iff the identifier validates
ValidPortId(s) == s \in Ports

(* ------------------------------- keys ---------------------------------- *)

\* Key::ibc_key(Path::Ports(port_id).to_string()) = #IBC/ports/<port_id>
PortPath(p) == <<"#IBC", "ports", p>>
\* Key::ibc_key(format!("capabilities/{}", index))
CapPath(i) == <<"#IBC", "capabilities", IndexToString(i)>>
\* Key::ibc_capability_index()
CounterKey == <<"#IBC", "capabilities", "index">>
\* key.is_ibc_capability_index()
is_ibc_capability_index(key) == key = CounterKey

\* keys the dispatcher hands to validate_port
PortKey(p) == <<"#IBC", "channelEnds", "ports", p>>
ShortPortKey == <<"#IBC", "ports", "transfer">>
\* a key that carries one port name at index 2 and another at index 3
CrossPortKey == <<"#IBC", "channelEnds", "bank", "transfer">>
PortKeys == {PortKey(p) : p \in PortStrs} \cup {ShortPortKey, CrossPortKey}

\* keys the dispatcher hands to validate_capability
NoIndexCapKey == <<"#IBC", "capabilities">>
NonNumberCapKey == <<"#IBC", "capabilities", "x">>
\* a second spelling of the key of capability 1
PaddedCapKey == <<"#IBC", "capabilities", "01">>
CapKeys == {CapPath(i) : i \in Indices}
              \cup {CounterKey, NoIndexCapKey, NonNumberCapKey, PaddedCapKey}

\* storage paths of the two snapshots
StorageKeys == {PortPath(p) : p \in Ports} \cup {CapPath(i) : i \in Indices}
                  \cup {NoIndexCapKey, NonNumberCapKey, PaddedCapKey}

(* ---------------------------- stored values ---------------------------- *)

\* outcome of a point read: no entry, a failing read, or the stored bytes
\* (an encoded u64, an encoded string, or bytes that decode as neither)
Entry(t, n, s) == [t |-> t, n |-> n, s |-> s]
NoEntry == Entry("none", 0, "")
ReadFailure == Entry("fail", 0, "")
Garbage == Entry("garbage", 0, "")
U64Value(n) == Entry("u64", n, "")
StrValue(s) == Entry("str", 0, s)

\* the paths of the two binding tables, whose entries the code decodes
IsTablePath(key) ==
    \/ \E p \in Ports : key = PortPath(p)
    \/ \E i \in Indices : key = CapPath(i)

\* the outcomes of a post-transaction read that the code can tell apart: at
\* a port path an encoded index, at a capability path an encoded string, at
\* either bytes that do not decode as the type read there, or a failure; at
\* a path outside the two tables only the presence of an entry is read
PostEntries(key) ==
    IF \E p \in Ports : key = PortPath(p)
    THEN {U64Value(n) : n \in Indices} \cup {Garbage, ReadFailure}
    ELSE IF \E i \in Indices : key = CapPath(i)
    THEN {StrValue(s) : s \in PortStrs} \cup {Garbage, ReadFailure}
    ELSE {Garbage}

\* only the presence of a pre-transaction entry is ever read; the read of a
\* table path may also fail
PreEntries(key) == IF IsTablePath(key) THEN {Garbage, ReadFailure} ELSE {Garbage}

\* the pre-transaction counter: a value, or a read that fails
CounterPreEntries == {U64Value(n) : n \in 0 .. MaxCounter} \cup {ReadFailure}

(* ------------------------------ results -------------------------------- *)

Ok(v) == [ok |-> TRUE, v |-> v, kind |-> "", reason |-> "", args |-> <<>>]
Err(kind, reason, args) ==
    [ok |-> FALSE, v |-> FALSE, kind |-> kind, reason |-> reason, args |-> args]
Some(v) == [some |-> TRUE, v |-> v]
None == [some |-> FALSE, v |-> 0]

ReadEv(snap, key) == [snap |-> snap, key |-> key]

(* ------------------- storage engine (consumed) ------------------------- *)

\* ctx.has_key_pre / ctx.has_key_post: presence of a key in a snapshot
has_key(snap, key) ==
    IF snap[key].t = "fail"
    THEN Err("StorageError", "Reading the storage failed", <<>>)
    ELSE Ok(snap[key].t # "none")

\* get_state_change: classification of a key between the two snapshots
get_state_change(key) ==
    LET a == has_key(pre, key)
        b == has_key(post, key)
    IN  IF ~a.ok THEN a
        ELSE IF ~b.ok THEN b
        ELSE IF a.v THEN (IF b.v THEN Ok("Modified") ELSE Ok("Deleted"))
        ELSE IF b.v THEN Ok("Created") ELSE Ok("NotExists")

get_state_change_reads(key) ==
    IF has_key(pre, key).ok
    THEN <<ReadEv("pre", key), ReadEv("post", key)>>
    ELSE <<ReadEv("pre", key)>>

\* read_counter_pre: typed read of the counter before the transaction
read_counter_pre(key) ==
    IF counter_pre.t = "u64" THEN Ok(counter_pre.n)
    ELSE IF counter_pre.t = "none"
    THEN Err("StorageError", "The counter doesn't exist", <<>>)
    ELSE IF counter_pre.t = "fail"
    THEN Err("StorageError", "Reading the counter failed", <<>>)
    ELSE Err("StorageError", "Decoding the counter failed", <<>>)

\* read_counter: the counter after the transaction; the caller receives a
\* plain u64 (port.rs line 112), there is no error outcome
read_counter(key) == counter_post

(* ------------------------- port.rs, impl Ibc --------------------------- *)

\* get_port_id that takes the segment with index 2
get_port_id_segment2(key) ==
    IF Len(key) >= 3
    THEN IF ValidPortId(key[3]) THEN Ok(key[3])
         ELSE Err("KeyError", "invalid port identifier", <<key[3]>>)
    ELSE Err("KeyError", "The key doesn't have a port ID", <<key>>)

\* get_port_id: the port ID is the segment with index 3
get_port_id(key) ==
    IF Len(key) >= 4
    THEN IF ValidPortId(key[4]) THEN Ok(key[4])
         ELSE Err("KeyError", "invalid port identifier", <<key[4]>>)
    ELSE Err("KeyError", "The key doesn't have a port ID", <<key>>)

get_port_state_change(port_id) ==
    LET r == get_state_change(PortPath(port_id))
    IN  IF r.ok THEN r ELSE Err("StateChangeError", r.reason, <<>>)

get_port_state_change_reads(port_id) == get_state_change_reads(PortPath(port_id))

\* capability_index_pre that replaces a failed read by the default value
capability_index_pre_default ==
    LET r == read_counter_pre(CounterKey)
    IN  IF r.ok THEN r ELSE Ok(0)

capability_index_pre ==
    LET r == read_counter_pre(CounterKey)
    IN  IF r.ok THEN r ELSE Err("CapabilityError", r.reason, <<>>)

capability_index == Ok(read_counter(CounterKey))

\* get_capability: the capability index is the segment with index 2
get_capability(key) ==
    IF Len(key) >= 3
    THEN IF ParseU64(key[3]) # -1 THEN Ok(ParseU64(key[3]))
         ELSE Err("CapabilityError", "The key has a non-number index", <<key>>)
    ELSE Err("CapabilityError", "The key doesn't have a capability index",
             <<key>>)

\* get_port_by_capability that answers a missing or undecodable entry with
\* a fixed port instead of an error
get_port_by_capability_lenient(cap) ==
    LET e == post[CapPath(cap)]
    IN  IF e.t = "fail" THEN Err("PortError", "Reading the port failed", <<>>)
        ELSE IF e.t # "str" THEN Ok("transfer")
        ELSE IF ValidPortId(e.s) THEN Ok(e.s)
        ELSE Err("PortError", "invalid port identifier", <<e.s>>)

get_port_by_capability(cap) ==
    LET e == post[CapPath(cap)]
    IN  IF e.t = "fail" THEN Err("PortError", "Reading the port failed", <<>>)
        ELSE IF e.t = "none"
        THEN Err("PortError", "The capability is not mapped to any port", <<>>)
        ELSE IF e.t # "str"
        THEN Err("PortError", "Decoding the port ID failed", <<>>)
        ELSE IF ValidPortId(e.s) THEN Ok(e.s)
        ELSE Err("PortError", "invalid port identifier", <<e.s>>)

get_port_by_capability_reads(cap) == <<ReadEv("post", CapPath(cap))>>

(* --------------------- port.rs, impl PortReader ------------------------ *)

\* lookup_module_by_port that prefers the pre-transaction entry of the port
lookup_module_by_port_pre(port_id) ==
    LET e == IF pre[PortPath(port_id)] # NoEntry
             THEN pre[PortPath(port_id)]
             ELSE post[PortPath(port_id)]
    IN  IF e.t = "u64" THEN Some(e.n) ELSE None

\* lookup_module_by_port that falls back to the default index on a bad value
lookup_module_by_port_default(port_id) ==
    LET e == post[PortPath(port_id)]
    IN  IF e.t = "u64" THEN Some(e.n)
        ELSE IF e.t = "none" \/ e.t = "fail" THEN None
        ELSE Some(0)

lookup_module_by_port(port_id) ==
    LET e == post[PortPath(port_id)]
    IN  IF e.t = "u64" THEN Some(e.n) ELSE None

lookup_module_by_port_reads(port_id) == <<ReadEv("post", PortPath(port_id))>>

\* authenticate that only checks that the capability resolves to some port
authenticate_any_port(cap, port_id) ==
    LET r == get_port_by_capability(cap)
    IN  r.ok

\* authenticate that takes a failed lookup for a match
authenticate_lenient(cap, port_id) ==
    LET r == get_port_by_capability(cap)
    IN  ~r.ok \/ r.v = port_id

authenticate(cap, port_id) ==
    LET r == get_port_by_capability(cap)
    IN  r.ok /\ r.v = port_id

authenticate_reads(cap, port_id) == get_port_by_capability_reads(cap)

\* ChannelReader::authenticated_capability: the capability the registry
\* holds for the port, provided it authenticates for that port
authenticated_capability(port_id) ==
    LET m == lookup_module_by_port(port_id)
    IN  IF ~m.some THEN Err("Ics04Error", "NoPortCapability", <<port_id>>)
        ELSE IF authenticate(m.v, port_id) THEN Ok(m.v)
        ELSE Err("Ics04Error", "InvalidPortCapability", <<>>)

authenticated_capability_reads(port_id) ==
    LET m == lookup_module_by_port(port_id)
    IN  lookup_module_by_port_reads(port_id)
          \o (IF m.some THEN authenticate_reads(m.v, port_id) ELSE <<>>)

(* ------------------------- the two predicates -------------------------- *)

\* validate_port with the Modified classification let through as well
validate_port_accepts_modified(key) ==
    LET id == get_port_id(key)
    IN  IF ~id.ok THEN id
        ELSE LET sc == get_port_state_change(id.v)
             IN  IF ~sc.ok THEN sc
                 ELSE IF sc.v \in {"Created", "Modified"}
                 THEN LET a == authenticated_capability(id.v)
                      IN  IF a.ok THEN Ok(TRUE)
                          ELSE Err("PortError", "The port is not authenticated",
                                   <<id.v, a.reason>>)
                 ELSE Err("PortError", "The state change of the port is invalid",
                          <<id.v>>)

validate_port(key) ==
    LET id == get_port_id(key)
    IN  IF ~id.ok THEN id
        ELSE LET sc == get_port_state_change(id.v)
             IN  IF ~sc.ok THEN sc
                 ELSE IF sc.v = "Created"
                 THEN LET a == authenticated_capability(id.v)
                      IN  IF a.ok THEN Ok(TRUE)
                          ELSE Err("PortError", "The port is not authenticated",
                                   <<id.v, a.reason>>)
                 ELSE Err("PortError", "The state change of the port is invalid",
                          <<id.v>>)

validate_port_reads(key) ==
    LET id == get_port_id(key)
    IN  IF ~id.ok THEN <<>>
        ELSE LET sc == get_port_state_change(id.v)
             IN  get_port_state_change_reads(id.v)
                   \o (IF sc.ok /\ sc.v = "Created"
                       THEN authenticated_capability_reads(id.v) ELSE <<>>)

\* counter arm that also accepts an unchanged counter
validate_capability_index_le ==
    LET p == capability_index_pre
    IN  IF ~p.ok THEN p ELSE Ok(p.v <= capability_index.v)

\* counter arm that accepts any changed counter
validate_capability_index_changed ==
    LET p == capability_index_pre
    IN  IF ~p.ok THEN p ELSE Ok(p.v # capability_index.v)

\* the counter arm of validate_capability (line 78)
validate_capability_index ==
    LET p == capability_index_pre
    IN  IF ~p.ok THEN p ELSE Ok(p.v < capability_index.v)

\* Created arm that accepts as soon as the registry holds any capability
validate_capability_created_any(key) ==
    LET cap == get_capability(key)
    IN  IF ~cap.ok THEN cap
        ELSE LET port_id == get_port_by_capability(cap.v)
             IN  IF ~port_id.ok THEN port_id
                 ELSE LET c == lookup_module_by_port(port_id.v)
                      IN  IF c.some THEN Ok(TRUE)
                          ELSE Err("CapabilityError",
                                   "The capability is not mapped",
                                   <<IndexToString(cap.v), port_id.v>>)

\* Created arm that answers a missing registry entry with a plain false
validate_capability_created_false(key) ==
    LET cap == get_capability(key)
    IN  IF ~cap.ok THEN cap
        ELSE LET port_id == get_port_by_capability(cap.v)
             IN  IF ~port_id.ok THEN port_id
                 ELSE LET c == lookup_module_by_port(port_id.v)
                      IN  IF c.some THEN Ok(c.v = cap.v) ELSE Ok(FALSE)

\* the Created arm of validate_capability (lines 84-95)
validate_capability_created(key) ==
    LET cap == get_capability(key)
    IN  IF ~cap.ok THEN cap
        ELSE LET port_id == get_port_by_capability(cap.v)
             IN  IF ~port_id.ok THEN port_id
                 ELSE LET c == lookup_module_by_port(port_id.v)
                      IN  IF c.some THEN Ok(c.v = cap.v)
                          ELSE Err("CapabilityError",
                                   "The capability is not mapped",
                                   <<IndexToString(cap.v), port_id.v>>)

\* validate_capability that sends Modified entries through the Created arm
validate_capability_accepts_modified(key) ==
    IF is_ibc_capability_index(key)
    THEN validate_capability_index
    ELSE LET g == get_state_change(key)
             sc == IF g.ok THEN g ELSE Err("StateChangeError", g.reason, <<>>)
         IN  IF ~sc.ok THEN sc
             ELSE IF sc.v \in {"Created", "Modified"}
             THEN validate_capability_created(key)
             ELSE Err("StateChangeError",
                      "The state change of the capability is invalid", <<key>>)

validate_capability(key) ==
    IF is_ibc_capability_index(key)
    THEN validate_capability_index
    ELSE LET g == get_state_change(key)
             sc == IF g.ok THEN g ELSE Err("StateChangeError", g.reason, <<>>)
         IN  IF ~sc.ok THEN sc
             ELSE IF sc.v = "Created" THEN validate_capability_created(key)
             ELSE Err("StateChangeError",
                      "The state change of the capability is invalid", <<key>>)

validate_capability_reads(key) ==
    IF is_ibc_capability_index(key)
    THEN <<ReadEv("pre", CounterKey)>>
           \o (IF capability_index_pre.ok THEN <<ReadEv("post", CounterKey)>>
               ELSE <<>>)
    ELSE LET sc == get_state_change(key)
             cap == get_capability(key)
         IN  get_state_change_reads(key)
               \o (IF sc.ok /\ sc.v = "Created" /\ cap.ok
                   THEN LET port_id == get_port_by_capability(cap.v)
                        IN  get_port_by_capability_reads(cap.v)
                              \o (IF port_id.ok
                                  THEN lookup_module_by_port_reads(port_id.v)
                                  ELSE <<>>)
                   ELSE <<>>)

(* ------------------------------ the machine ---------------------------- *)

Call(op, key, cap, port) == [op |-> op, key |-> key, cap |-> cap, port |-> port]
NoCall == Call("none", <<>>, 0, "")

\* number of entries and counter values the host has set
Entries ==
    Cardinality({k \in StorageKeys : pre[k] # NoEntry})
      + Cardinality({k \in StorageKeys : post[k] # NoEntry})
      + (IF counter_pre # U64Value(0) THEN 1 ELSE 0)
      + (IF counter_post # 0 THEN 1 ELSE 0)

Init ==
    /\ pre = [k \in StorageKeys |-> NoEntry]
    /\ post = [k \in StorageKeys |-> NoEntry]
    /\ counter_pre = U64Value(0)
    /\ counter_post = 0
    /\ call = NoCall
    /\ result = Ok(FALSE)
    /\ trace = <<>>

\* the host fixes the state before the transaction
HostWritePre ==
    /\ call = NoCall
    /\ Entries < MaxEntries
    /\ \E k \in StorageKeys : \E e \in PreEntries(k) :
          /\ pre[k] = NoEntry
          /\ pre' = [pre EXCEPT ![k] = e]
    /\ UNCHANGED <<post, counter_pre, counter_post, call, result, trace>>

\* the transaction's writes, materialised in the post snapshot
HostWritePost ==
    /\ call = NoCall
    /\ Entries < MaxEntries
    /\ \E k \in StorageKeys : \E e \in PostEntries(k) :
          /\ post[k] = NoEntry
          /\ post' = [post EXCEPT ![k] = e]
    /\ UNCHANGED <<pre, counter_pre, counter_post, call, result, trace>>

HostSetCounterPre ==
    /\ call = NoCall
    /\ Entries < MaxEntries
    /\ counter_pre = U64Value(0)
    /\ \E e \in CounterPreEntries \ {U64Value(0)} : counter_pre' = e
    /\ UNCHANGED <<pre, post, counter_post, call, result, trace>>

HostSetCounterPost ==
    /\ call = NoCall
    /\ Entries < MaxEntries
    /\ counter_post = 0
    /\ \E n \in 1 .. MaxCounter : counter_post' = n
    /\ UNCHANGED <<pre, post, counter_pre, call, result, trace>>

ValidatePort ==
    \E key \in PortKeys :
        /\ call = NoCall
        /\ call' = Call("validate_port", key, 0, "")
        /\ result' = validate_port(key)
        /\ trace' = validate_port_reads(key)
        /\ UNCHANGED <<pre, post, counter_pre, counter_post>>

\* validate_capability that advances the stored counter while judging
ValidateCapability_bump ==
    \E key \in CapKeys :
        /\ call = NoCall
        /\ call' = Call("validate_capability", key, 0, "")
        /\ result' = validate_capability(key)
        /\ trace' = validate_capability_reads(key)
        /\ counter_post' = IF counter_post < MaxCounter THEN counter_post + 1
                           ELSE counter_post
        /\ UNCHANGED <<pre, post, counter_pre>>

ValidateCapability ==
    \E key \in CapKeys :
        /\ call = NoCall
        /\ call' = Call("validate_capability", key, 0, "")
        /\ result' = validate_capability(key)
        /\ trace' = validate_capability_reads(key)
        /\ UNCHANGED <<pre, post, counter_pre, counter_post>>

LookupModuleByPort ==
    \E p \in Ports :
        /\ call = NoCall
        /\ call' = Call("lookup_module_by_port", <<>>, 0, p)
        /\ result' = lookup_module_by_port(p)
        /\ trace' = lookup_module_by_port_reads(p)
        /\ UNCHANGED <<pre, post, counter_pre, counter_post>>

Authenticate ==
    \E c \in Indices, p \in Ports :
        /\ call = NoCall
        /\ call' = Call("authenticate", <<>>, c, p)
        /\ result' = authenticate(c, p)
        /\ trace' = authenticate_reads(c, p)
        /\ UNCHANGED <<pre, post, counter_pre, counter_post>>

\* a PortReader query is invoked again with the same arguments against the
\* same post snapshot, under the same pre snapshot or under one that differs
\* at the paths of the queried port and capability
InvokeAgain ==
    /\ call.op \in {"lookup_module_by_port", "authenticate"}
    /\ \/ UNCHANGED pre
       \/ /\ Entries < MaxEntries
          /\ \E k \in {PortPath(call.port), CapPath(call.cap)} :
                \E e \in PreEntries(k) :
                    /\ pre[k] = NoEntry
                    /\ pre' = [pre EXCEPT ![k] = e]
    /\ UNCHANGED <<post, counter_pre, counter_post>>
    /\ call' = call
    /\ result' = IF call.op = "lookup_module_by_port"
                 THEN lookup_module_by_port(call.port)'
                 ELSE authenticate(call.cap, call.port)'
    /\ trace' = IF call.op = "lookup_module_by_port"
                THEN lookup_module_by_port_reads(call.port)'
                ELSE authenticate_reads(call.cap, call.port)'

\* the judgment is handed back; the predicate keeps no state of its own
Return ==
    /\ call # NoCall
    /\ call' = NoCall
    /\ result' = Ok(FALSE)
    /\ trace' = <<>>
    /\ UNCHANGED <<pre, post, counter_pre, counter_post>>

Next ==
    \/ HostWritePre
    \/ HostWritePost
    \/ HostSetCounterPre
    \/ HostSetCounterPost
    \/ ValidatePort
    \/ ValidateCapability
    \/ LookupModuleByPort
    \/ Authenticate
    \/ InvokeAgain
    \/ Return

Spec == Init /\ [][Next]_vars

(* ----------------------- a history of transactions --------------------- *)

\* what a transaction can store at a path
TxEntries(key) == PostEntries(key) \ {ReadFailure}

\* the keys whose entry the transaction in progress has changed
ChangedKeys == {k \in StorageKeys : post[k] # pre[k]}

CounterChanged == counter_post # counter_pre.n

\* the dispatcher hands every changed key to its predicate: a changed binding
\* of port p as the key #IBC/channelEnds/ports/<p> to validate_port, a changed
\* key under capabilities/ to validate_capability
Judge(k) ==
    IF \E p \in Ports : k = PortPath(p)
    THEN validate_port(PortKey(k[3]))
    ELSE validate_capability(k)

Accepted(r) == r.ok /\ r.v = TRUE

\* the transaction is valid iff every changed key is accepted
validate_tx ==
    /\ \A k \in ChangedKeys : Accepted(Judge(k))
    /\ CounterChanged => Accepted(validate_capability(CounterKey))

\* the transaction writes or deletes one entry
TxWrite ==
    /\ call = NoCall
    /\ Cardinality(ChangedKeys) + (IF CounterChanged THEN 1 ELSE 0) < MaxEntries
    /\ \E k \in StorageKeys : \E e \in TxEntries(k) \cup {NoEntry} :
          /\ post[k] = pre[k]
          /\ e # pre[k]
          /\ post' = [post EXCEPT ![k] = e]
    /\ UNCHANGED <<pre, counter_pre, counter_post, call, result, trace>>

\* the transaction writes the capability counter
TxSetCounter ==
    /\ call = NoCall
    /\ Cardinality(ChangedKeys) < MaxEntries
    /\ ~CounterChanged
    /\ \E n \in 0 .. MaxCounter :
          /\ n # counter_post
          /\ counter_post' = n
    /\ UNCHANGED <<pre, post, counter_pre, call, result, trace>>

\* the validity predicate judges the changed keys of the transaction
JudgeTx ==
    /\ call = NoCall
    /\ call' = Call("transaction", <<>>, 0, "")
    /\ result' = Ok(validate_tx)
    /\ trace' = <<>>
    /\ UNCHANGED <<pre, post, counter_pre, counter_post>>

\* an accepted transaction is applied: its post state is the next pre state
CommitTx ==
    /\ call.op = "transaction"
    /\ result = Ok(TRUE)
    /\ pre' = post
    /\ counter_pre' = U64Value(counter_post)
    /\ call' = NoCall
    /\ result' = Ok(FALSE)
    /\ UNCHANGED <<post, counter_post, trace>>

\* a rejected transaction is discarded
RejectTx ==
    /\ call.op = "transaction"
    /\ result = Ok(FALSE)
    /\ post' = pre
    /\ counter_post' = counter_pre.n
    /\ call' = NoCall
    /\ UNCHANGED <<pre, counter_pre, result, trace>>

LedgerNext ==
    \/ TxWrite
    \/ TxSetCounter
    \/ JudgeTx
    \/ CommitTx
    \/ RejectTx

\* accepted histories, starting from empty storage
SpecLedger == Init /\ [][LedgerNext]_vars

(* ------------------------------ properties ----------------------------- *)

\* C1: whenever the canonical path ports/<port_id> of the key's port is
\* classified Modified, Deleted or NotExists (both snapshot reads succeed and
\* it is not the case that the entry is absent before and present after),
\* validate_port returns the port error "The state change of the port is
\* invalid" naming the port, and never Ok(true).
C1_NonCreatedPortRejected ==
    (/\ call.op = "validate_port"
     /\ Len(call.key) >= 4
     /\ call.key[4] \in Ports
     /\ pre[PortPath(call.key[4])].t # "fail"
     /\ post[PortPath(call.key[4])].t # "fail"
     /\ ~(/\ pre[PortPath(call.key[4])].t = "none"
          /\ post[PortPath(call.key[4])].t # "none"))
    => /\ ~result.ok
       /\ result.kind = "PortError"
       /\ result.reason = "The state change of the port is invalid"
       /\ result.args = <<call.key[4]>>

\* a port entry present before and after the transaction (Modified), with a
\* capability bound to it both ways, has been judged and rejected
C1_Witness ==
    /\ call.op = "validate_port"
    /\ call.key = PortKey("transfer")
    /\ pre[PortPath("transfer")].t = "garbage"
    /\ post[PortPath("transfer")] = U64Value(1)
    /\ post[CapPath(1)] = StrValue("transfer")
    /\ ~result.ok

\* C2: for a key whose port path is classified Created, validate_port returns
\* Ok(true) exactly when the post snapshot binds the port to a capability
\* index c and binds capability c to that very port; otherwise it rejects
\* with the port error "The port is not authenticated".
C2_CreatedPortNeedsCapability ==
    (/\ call.op = "validate_port"
     /\ Len(call.key) >= 4
     /\ call.key[4] \in Ports
     /\ pre[PortPath(call.key[4])].t = "none"
     /\ post[PortPath(call.key[4])].t \notin {"none", "fail"})
    => LET p == call.key[4]
           resolves == \E c \in Indices : /\ post[PortPath(p)] = U64Value(c)
                                          /\ post[CapPath(c)] = StrValue(p)
       IN  /\ (result.ok /\ result.v = TRUE) <=> resolves
           /\ ~resolves => /\ ~result.ok
                           /\ result.kind = "PortError"
                           /\ result.reason = "The port is not authenticated"

\* a created port bound to capability 1, which is bound back to it, accepted
C2_Witness ==
    /\ call.op = "validate_port"
    /\ call.key = PortKey("transfer")
    /\ pre[PortPath("transfer")].t = "none"
    /\ post[PortPath("transfer")] = U64Value(1)
    /\ post[CapPath(1)] = StrValue("transfer")
    /\ result.ok
    /\ result.v = TRUE

\* C3: whenever validate_capability returns Ok(true) for a non-counter key
\* with index i, the key is classified Created, the post snapshot maps
\* capability i to a port p, and the post snapshot maps port p to exactly
\* capability i.
C3_AcceptedCapabilityBindingsAgree ==
    (/\ call.op = "validate_capability"
     /\ call.key # CounterKey
     /\ result.ok
     /\ result.v = TRUE)
    => /\ pre[call.key].t = "none"
       /\ post[call.key].t \notin {"none", "fail"}
       /\ Len(call.key) >= 3
       /\ \E i \in Indices, p \in Ports :
             /\ ParseU64(call.key[3]) = i
             /\ post[CapPath(i)] = StrValue(p)
             /\ post[PortPath(p)] = U64Value(i)

\* a created capability entry whose two bindings agree has been accepted
C3_Witness ==
    /\ call.op = "validate_capability"
    /\ call.key = CapPath(1)
    /\ post[CapPath(1)] = StrValue("bank")
    /\ post[PortPath("bank")] = U64Value(1)
    /\ result.ok
    /\ result.v = TRUE

\* C4 (as stated): when a per-capability key is classified Created, its
\* capability resolves to a port, and the registry holds a different
\* capability or none for that port, validate_capability returns the
\* capability error "The capability is not mapped" naming index and port.
C4_Original ==
    \A i \in Indices, p \in Ports :
        (/\ call.op = "validate_capability"
         /\ call.key # CounterKey
         /\ Len(call.key) >= 3
         /\ ParseU64(call.key[3]) = i
         /\ pre[call.key].t = "none"
         /\ post[call.key].t \notin {"none", "fail"}
         /\ post[CapPath(i)] = StrValue(p)
         /\ post[PortPath(p)] # U64Value(i))
        => /\ ~result.ok
           /\ result.kind = "CapabilityError"
           /\ result.reason = "The capability is not mapped"
           /\ result.args = <<IndexToString(i), p>>

\* C4 (amended): in the same situation, when the registry holds no readable
\* capability for the port the outcome is the capability error "The
\* capability is not mapped" naming index and port; when it holds a
\* different capability the outcome is the plain boolean Ok(false).
C4_NotMappedErrorOrFalse ==
    \A i \in Indices, p \in Ports :
        (/\ call.op = "validate_capability"
         /\ call.key # CounterKey
         /\ Len(call.key) >= 3
         /\ ParseU64(call.key[3]) = i
         /\ pre[call.key].t = "none"
         /\ post[call.key].t \notin {"none", "fail"}
         /\ post[CapPath(i)] = StrValue(p)
         /\ post[PortPath(p)] # U64Value(i))
        => IF post[PortPath(p)].t = "u64"
           THEN result = Ok(FALSE)
           ELSE /\ ~result.ok
                /\ result.kind = "CapabilityError"
                /\ result.reason = "The capability is not mapped"
                /\ result.args = <<IndexToString(i), p>>

\* capability 0 is created for port transfer, whose registry entry names
\* capability 1: judged, and answered with the plain boolean false
C4_Witness ==
    /\ call.op = "validate_capability"
    /\ call.key = CapPath(0)
    /\ pre[CapPath(0)].t = "none"
    /\ post[CapPath(0)] = StrValue("transfer")
    /\ post[PortPath("transfer")] = U64Value(1)
    /\ result = Ok(FALSE)

\* C5: on the capability-counter key validate_capability accepts (returns
\* Ok(true)) if and only if the counter's pre-transaction value was read and
\* is strictly less than its post-transaction value.
C5_CounterAcceptedIffIncreased ==
    (call.op = "validate_capability" /\ call.key = CounterKey)
    => ((result.ok /\ result.v = TRUE)
          <=> (counter_pre.t = "u64" /\ counter_pre.n < counter_post))

\* the counter key has been judged for an increased counter and accepted
C5_Witness ==
    /\ call.op = "validate_capability"
    /\ call.key = CounterKey
    /\ counter_pre = U64Value(1)
    /\ counter_post = 2
    /\ result.ok
    /\ result.v = TRUE

\* C6 (as stated): on the counter key, when the pre-transaction value is not
\* strictly less than the post-transaction value, validate_capability
\* returns an error carrying the reason "invalid capability index".
C6_Original ==
    (/\ call.op = "validate_capability"
     /\ call.key = CounterKey
     /\ counter_pre.t = "u64"
     /\ ~(counter_pre.n < counter_post))
    => /\ ~result.ok
       /\ result.reason = "invalid capability index"

\* C6 (amended): in that case validate_capability returns the successful
\* result Ok(false): no error, no reason.
C6_CounterRejectedWithFalse ==
    (/\ call.op = "validate_capability"
     /\ call.key = CounterKey
     /\ counter_pre.t = "u64"
     /\ ~(counter_pre.n < counter_post))
    => result = Ok(FALSE)

\* the counter key judged for a counter that moved backward
C6_Witness ==
    /\ call.op = "validate_capability"
    /\ call.key = CounterKey
    /\ counter_pre = U64Value(2)
    /\ counter_post = 1
    /\ result = Ok(FALSE)

\* C7: for a per-capability key classified Modified, Deleted or NotExists
\* validate_capability returns the state-change error "The state change of
\* the capability is invalid" naming the key, and its only reads are the
\* classifier's two reads of the key itself: neither the capability's port
\* mapping nor the registry is consulted.
C7_NonCreatedCapabilityRejected ==
    (/\ call.op = "validate_capability"
     /\ call.key # CounterKey
     /\ pre[call.key].t # "fail"
     /\ post[call.key].t # "fail"
     /\ ~(pre[call.key].t = "none" /\ post[call.key].t # "none"))
    => /\ ~result.ok
       /\ result.kind = "StateChangeError"
       /\ result.reason = "The state change of the capability is invalid"
       /\ result.args = <<call.key>>
       /\ trace = <<ReadEv("pre", call.key), ReadEv("post", call.key)>>

\* a capability entry present before and after (Modified), with bindings
\* that would agree, has been judged and rejected
C7_Witness ==
    /\ call.op = "validate_capability"
    /\ call.key = CapPath(1)
    /\ pre[CapPath(1)].t = "garbage"
    /\ post[CapPath(1)] = StrValue("bank")
    /\ post[PortPath("bank")] = U64Value(1)
    /\ ~result.ok

\* C8: authenticate(c, p) is true if and only if the post snapshot holds at
\* capabilities/<c> a value that decodes to exactly the port p; it is false
\* for every other port, and for every port when the entry is missing,
\* unreadable or undecodable.
C8_AuthenticateIffBound ==
    call.op = "authenticate"
    => (result <=> post[CapPath(call.cap)] = StrValue(call.port))

\* authenticate has answered false for a capability bound to another port
C8_Witness ==
    /\ call.op = "authenticate"
    /\ call.cap = 1
    /\ call.port = "bank"
    /\ post[CapPath(1)] = StrValue("transfer")
    /\ result = FALSE

\* C9: lookup_module_by_port(p) returns the capability whose index is stored
\* at ports/<p> in the post snapshot, and returns nothing whenever the entry
\* is absent, the read fails, or the value does not decode as an integer.
C9_LookupStoredIndexOrNothing ==
    call.op = "lookup_module_by_port"
    => IF post[PortPath(call.port)].t = "u64"
       THEN result = Some(post[PortPath(call.port)].n)
       ELSE result = None

\* the lookup has answered nothing for an entry that is not an integer
C9_Witness ==
    /\ call.op = "lookup_module_by_port"
    /\ call.port = "transfer"
    /\ post[PortPath("transfer")] = Garbage
    /\ result = None

C11_Original ==
    (/\ call.op = "transaction"
     /\ result = Ok(TRUE)
     /\ \E i \in Indices : /\ pre[CapPath(i)].t = "none"
                           /\ post[CapPath(i)].t # "none")
    => counter_pre.n < counter_post

\* C12 (as stated): every capability entry accepted by validate_capability
\* has an index strictly less than the capability counter's post-transaction
\* value, and no entry existed at that index before the transaction.
C12_Original ==
    (/\ call.op = "validate_capability"
     /\ call.key # CounterKey
     /\ result = Ok(TRUE))
    => /\ ParseU64(call.key[3]) < counter_post
       /\ pre[CapPath(ParseU64(call.key[3]))].t = "none"

\* C13: over any sequence of transactions in which every changed counter key
\* was accepted by validate_capability, the committed capability counter
\* never decreases from one state to the next.
C13_CounterNeverBackward == [][counter_pre'.n >= counter_pre.n]_vars

\* the counter has advanced to 2 through accepted transactions, and a
\* transaction that moves it back to 1 has been judged and rejected
C13_Witness ==
    /\ call.op = "transaction"
    /\ counter_pre = U64Value(2)
    /\ counter_post = 1
    /\ result = Ok(FALSE)

\* C14: over any sequence of transactions in which every changed port key
\* was accepted by validate_port, once ports/<p> holds capability index c it
\* holds the same c in every later state: no accepted transaction deletes or
\* rebinds it.
C14_PortBindingNeverChanges ==
    [][\A p \in Ports, c \in Indices :
          pre[PortPath(p)] = U64Value(c) => pre'[PortPath(p)] = U64Value(c)]_vars

\* port transfer is bound to capability 0; a transaction that rebinds it to
\* capability 1, and binds capability 1 to it, has been judged and rejected
C14_Witness ==
    /\ call.op = "transaction"
    /\ pre[PortPath("transfer")] = U64Value(0)
    /\ post[PortPath("transfer")] = U64Value(1)
    /\ post[CapPath(1)] = StrValue("transfer")
    /\ result = Ok(FALSE)

\* C15: lookup_module_by_port and authenticate depend on the post snapshot
\* alone: invoked again with the same arguments against the same post
\* snapshot, under the same or a different pre snapshot, they return the
\* same result.
C15_QueriesDependOnPostOnly ==
    [][(/\ call.op \in {"lookup_module_by_port", "authenticate"}
        /\ call' = call
        /\ post' = post)
       => result' = result]_vars

\* the lookup has answered for a port whose entry exists in both snapshots
C15_Witness ==
    /\ call.op = "lookup_module_by_port"
    /\ call.port = "transfer"
    /\ pre[PortPath("transfer")] = Garbage
    /\ post[PortPath("transfer")] = U64Value(1)
    /\ result = Some(1)

\* C16: a step in which validate_port, validate_capability,
\* lookup_module_by_port or authenticate is invoked leaves the pre snapshot,
\* the post snapshot and both counter values as they were, whatever the
\* outcome.
C16_PredicatesReadOnly ==
    [][(/\ call = NoCall
        /\ call'.op \in {"validate_port", "validate_capability",
                         "lookup_module_by_port", "authenticate"})
       => /\ pre' = pre
          /\ post' = post
          /\ counter_pre' = counter_pre
          /\ counter_post' = counter_post]_vars

\* validate_port has accepted the created port bank over non-empty snapshots
C16_Witness ==
    /\ call.op = "validate_port"
    /\ call.key = PortKey("bank")
    /\ post[PortPath("bank")] = U64Value(0)
    /\ post[CapPath(0)] = StrValue("bank")
    /\ counter_post = 1
    /\ result = Ok(TRUE)

\* C17: for a per-capability key classified Created whose segment 2 parses
\* to index i, validate_capability returns a port error when capabilities/<i>
\* is missing in the post snapshot ("The capability is not mapped to any
\* port"), cannot be read ("Reading the port failed"), does not decode
\* ("Decoding the port ID failed") or decodes to an invalid identifier; in
\* these cases the registry is not read at all, and whenever the registry is
\* read, it is read last, after capabilities/<i> resolved to a valid port.
C17_UnresolvedCapabilityRejected ==
    (/\ call.op = "validate_capability"
     /\ call.key # CounterKey
     /\ pre[call.key].t = "none"
     /\ post[call.key].t \notin {"none", "fail"}
     /\ Len(call.key) >= 3
     /\ ParseU64(call.key[3]) >= 0)
    => LET i == ParseU64(call.key[3])
           e == post[CapPath(i)]
           resolved == e.t = "str" /\ e.s \in Ports
           classified == <<ReadEv("pre", call.key), ReadEv("post", call.key)>>
       IN  /\ e.t = "none"
              => /\ ~result.ok
                 /\ result.kind = "PortError"
                 /\ result.reason = "The capability is not mapped to any port"
           /\ e.t = "fail"
              => /\ ~result.ok
                 /\ result.kind = "PortError"
                 /\ result.reason = "Reading the port failed"
           /\ e.t = "garbage"
              => /\ ~result.ok
                 /\ result.kind = "PortError"
                 /\ result.reason = "Decoding the port ID failed"
           /\ (e.t = "str" /\ e.s \notin Ports)
              => (~result.ok /\ result.kind = "PortError")
           /\ ~resolved
              => trace = classified \o <<ReadEv("post", CapPath(i))>>
           /\ resolved
              => trace = classified \o <<ReadEv("post", CapPath(i)),
                                         ReadEv("post", PortPath(e.s))>>

\* the key capabilities/01 is created while capabilities/1 has no entry:
\* judged, and rejected because capability 1 is not mapped to any port
C17_Witness ==
    /\ call.op = "validate_capability"
    /\ call.key = PaddedCapKey
    /\ pre[PaddedCapKey].t = "none"
    /\ post[PaddedCapKey] = Garbage
    /\ post[CapPath(1)] = NoEntry
    /\ ~result.ok
    /\ result.reason = "The capability is not mapped to any port"

\* C18: key interpretation is positional.  validate_port judges the port
\* named by the segment with index 3: a key with fewer than four segments,
\* or with an invalid identifier there, gets a key error, and otherwise the
\* path classified is ports/<segment 3>.  For a Created non-counter key
\* validate_capability takes the index from the segment with index 2: an
\* absent or non-numeric segment gets a capability error, and otherwise the
\* mapping read is capabilities/<index>.  No malformed key is accepted.
C18_KeysArePositional ==
    /\ call.op = "validate_port"
       => /\ Len(call.key) < 4
             => /\ ~result.ok
                /\ result.kind = "KeyError"
                /\ result.reason = "The key doesn't have a port ID"
          /\ (Len(call.key) >= 4 /\ call.key[4] \notin Ports)
             => (~result.ok /\ result.kind = "KeyError")
          /\ (Len(call.key) >= 4 /\ call.key[4] \in Ports)
             => trace[1] = ReadEv("pre", PortPath(call.key[4]))
          /\ (result.ok /\ result.v = TRUE)
             => /\ Len(call.key) >= 4
                /\ call.key[4] \in Ports
                /\ pre[PortPath(call.key[4])].t = "none"
                /\ post[PortPath(call.key[4])].t = "u64"
    /\ (/\ call.op = "validate_capability"
        /\ call.key # CounterKey
        /\ pre[call.key].t = "none"
        /\ post[call.key].t \notin {"none", "fail"})
       => /\ Len(call.key) < 3
             => /\ ~result.ok
                /\ result.kind = "CapabilityError"
                /\ result.reason = "The key doesn't have a capability index"
          /\ (Len(call.key) >= 3 /\ ParseU64(call.key[3]) = -1)
             => /\ ~result.ok
                /\ result.kind = "CapabilityError"
                /\ result.reason = "The key has a non-number index"
          /\ (Len(call.key) >= 3 /\ ParseU64(call.key[3]) >= 0)
             => trace[3] = ReadEv("post", CapPath(ParseU64(call.key[3])))
    /\ (/\ call.op = "validate_capability"
        /\ call.key # CounterKey
        /\ result.ok
        /\ result.v = TRUE)
       => (Len(call.key) >= 3 /\ ParseU64(call.key[3]) >= 0)

\* the three-segment key #IBC/ports/transfer has been judged while the port
\* transfer is created with an authenticated capability: a key error
C18_Witness ==
    /\ call.op = "validate_port"
    /\ call.key = ShortPortKey
    /\ pre[PortPath("transfer")].t = "none"
    /\ post[PortPath("transfer")] = U64Value(0)
    /\ post[CapPath(0)] = StrValue("transfer")
    /\ ~result.ok
    /\ result.kind = "KeyError"

\* C19: starting from empty storage, after any sequence of transactions in
\* which every changed port key was accepted by validate_port and every
\* changed capability key by validate_capability, the two binding tables of
\* the committed state are mutual inverses: ports/<p> holds index c if and
\* only if capabilities/<c> holds p, and neither table holds any other entry.
C19_BindingTablesAreInverse ==
    /\ \A p \in Ports, c \in Indices :
          pre[PortPath(p)] = U64Value(c) <=> pre[CapPath(c)] = StrValue(p)
    /\ \A p \in Ports : pre[PortPath(p)].t \in {"none", "u64"}
    /\ \A c \in Indices :
          \/ pre[CapPath(c)].t = "none"
          \/ pre[CapPath(c)].t = "str" /\ pre[CapPath(c)].s \in Ports

\* both ports are bound, each to its own capability, in the committed state
C19_Witness ==
    /\ call = NoCall
    /\ post = pre
    /\ pre[PortPath("transfer")] = U64Value(1)
    /\ pre[CapPath(1)] = StrValue("transfer")
    /\ pre[PortPath("bank")] = U64Value(0)
    /\ pre[CapPath(0)] = StrValue("bank")

====
